---- MODULE Spec2Model ----
(***************************************************************************)
(* Model of the incremental tag parsers of backend/stream_text_parser.py   *)
(* (StreamTextParser) and backend/emotion_parser.py (EmotionTagParser),    *)
(* and of the code that drives them: ChatStreamer.stream, LLMClient.stream,*)
(* the websocket handler ws_chat and PromptFactory._format_history.        *)
(*                                                                         *)
(* Text is a sequence of code points.  Indices into text are 0-based, as   *)
(* in the Python source: At(s, k) is s[k] and Slice(s, a, b) is s[a:b].    *)
(***************************************************************************)
EXTENDS Integers, Sequences, FiniteSets, TLC

VARIABLES
    kind,               \* which class this instance is
    allowed_set,        \* self.allowed_set
    strip_non_english,  \* self.strip_non_english
    carry,              \* self._carry
    last_tag,           \* self._last_tag (StreamTextParser), self._last_emotion (EmotionTagParser)
    has_output_text,    \* self._has_output_text
    has_output_non_ws,  \* self._has_output_non_ws
    calls,              \* history: the process_chunk calls with a non-empty chunk
    ret,                \* history: the last call, what it returned, whether it raised
    finish_count,       \* history: number of finish() calls so far
    chat,               \* the running ChatStreamer.stream calls, each with its locals
    llm,                \* one LLMClient.stream call with its locals
    ws,                 \* one ws_chat connection with its locals and the messages sent
    fmt                 \* one PromptFactory._format_history call: arguments and result

\* the fields of the parser instance the parser specifications are about
parser_vars == <<kind, allowed_set, strip_non_english, carry, last_tag,
                 has_output_text, has_output_non_ws, calls, ret, finish_count>>

\* the callers of the parsers
app_vars == <<chat, llm, ws, fmt>>

vars == <<parser_vars, app_vars>>

\* no caller is modelled: the parser specifications drive one instance directly
NoChat == chat = <<>>
NoLLM == llm = [pc |-> "none"]
NoWs == ws = [pc |-> "none"]
NoFmt == fmt = [pc |-> "none"]

(***************************************************************************)
(* Bounds of the model.                                                    *)
(***************************************************************************)
\* total number of characters passed to process_chunk on one instance
MaxLen == 4
\* number of finish() calls on one instance
MaxFinish == 2
\* total number of characters passed to an instance that is used again after finish()
MaxReuseLen == 3
\* total number of characters of a stream of tags (SpecOrder)
MaxOrderLen == 5

(***************************************************************************)
(* Characters.                                                             *)
(***************************************************************************)
\* "[" in combined.find("[", i)
LBRACKET == 91
\* "]" in combined.find("]", open_idx + 1)
RBRACKET == 93

\* the characters fragments are drawn from:  ' '  'H'  '['  ']'  'x'  U+00E9
Alphabet == {32, 72, LBRACKET, RBRACKET, 120, 233}

\* the tag names of the configurations:  "H",  "Hx",  "H."  and  "x"
TagH == <<72>>
TagHx == <<72, 120>>
TagHDot == <<72, 46>>
TagX == <<120>>

\* Python's None (no tag recognised yet, no regex match)
None == <<-1>>

\* str.isspace() / regex \s, for code points below 256
IsSpace(c) == c \in (9..13) \cup (28..32) \cup {133, 160}

\* the complement of the class [^\x09\x0A\x0D\x20-\x7E]
IsProse(c) == c \in {9, 10, 13} \cup (32..126)

\* the lookahead class [\s\.,!?:;]
IsTagDelimiter(c) == IsSpace(c) \/ c \in {46, 44, 33, 63, 58, 59}

Min(S) == CHOOSE x \in S : \A y \in S : x <= y
Max(S) == CHOOSE x \in S : \A y \in S : y <= x

At(s, k) == s[k + 1]
Slice(s, a, b) == SubSeq(s, a + 1, b)

\* s.find(c, start): the first index >= start holding c, or -1
Find(s, c, start) ==
    LET hits == {k \in start..(Len(s) - 1) : At(s, k) = c}
    IN  IF hits = {} THEN -1 ELSE Min(hits)

\* s.rfind(c): the last index holding c, or -1
RFind(s, c) ==
    LET hits == {k \in 0..(Len(s) - 1) : At(s, k) = c}
    IN  IF hits = {} THEN -1 ELSE Max(hits)

\* s.strip()
Strip(s) ==
    LET keep == {k \in 0..(Len(s) - 1) : ~IsSpace(At(s, k))}
    IN  IF keep = {} THEN <<>> ELSE Slice(s, Min(keep), Max(keep) + 1)

\* while j < len(combined) and combined[j].isspace(): j += 1
SkipSpace(combined, j) ==
    LET stop == {k \in j..(Len(combined) - 1) : ~IsSpace(At(combined, k))}
    IN  IF stop = {} THEN (IF j < Len(combined) THEN Len(combined) ELSE j)
        ELSE Min(stop)

\* any(not ch.isspace() for ch in text_out)
HasNonSpace(text) == \E k \in 0..(Len(text) - 1) : ~IsSpace(At(text, k))

\* [a, a+1, ..., b-1] as a sequence: the indices of combined[a:b]
Range(a, b) == [k \in 1..(IF b > a THEN b - a ELSE 0) |-> a + k - 1]

(***************************************************************************)
(* StreamTextParser.                                                       *)
(***************************************************************************)
\* _filter_chars with the substitution left out
FilterCharsKeepsAll(strip, text) == text

\* _filter_chars: every run of non-prose characters is replaced by ""
FilterChars(strip, text) ==
    IF ~strip \/ text = <<>> THEN text ELSE SelectSeq(text, IsProse)

\* the leading-tag pattern with its alternatives tried shortest first
LeadingTagMatchShortestFirst(allowed, rest) ==
    LET fits == {t \in allowed :
                    /\ Len(t) <= Len(rest)
                    /\ SubSeq(rest, 1, Len(t)) = t
                    /\ \/ Len(t) = Len(rest)
                       \/ IsTagDelimiter(At(rest, Len(t)))}
    IN  IF fits = {} THEN None
        ELSE CHOOSE t \in fits : \A u \in fits : Len(t) <= Len(u)

\* the leading-tag pattern without its lookahead: a tag name matches whatever follows
LeadingTagMatchNoLookahead(allowed, rest) ==
    LET fits == {t \in allowed :
                    /\ Len(t) <= Len(rest)
                    /\ SubSeq(rest, 1, Len(t)) = t}
    IN  IF fits = {} THEN None
        ELSE CHOOSE t \in fits : \A u \in fits : Len(u) <= Len(t)

\* _leading_tag_re.match(rest): the alternatives are tried longest first, each
\* followed by the lookahead (?=[\s\.,!?:;]|$); None when there is no match
LeadingTagMatch(allowed, rest) ==
    LET fits == {t \in allowed :
                    /\ Len(t) <= Len(rest)
                    /\ SubSeq(rest, 1, Len(t)) = t
                    /\ \/ Len(t) = Len(rest)
                       \/ IsTagDelimiter(At(rest, Len(t)))}
    IN  IF fits = {} THEN None
        ELSE CHOOSE t \in fits : \A u \in fits : Len(u) <= Len(t)

\* the bare leading tag without "not self._has_output_non_ws": the detector runs in
\* every call
LeadingTagUngated(allowed, non_ws, combined) ==
    IF allowed # {} /\ combined # <<>>
    THEN LET j == SkipSpace(combined, 0)
             m == IF j < Len(combined)
                  THEN LeadingTagMatch(allowed, Slice(combined, j, Len(combined)))
                  ELSE None
         IN  IF m # None
             THEN [tag |-> m, i |-> SkipSpace(combined, j + Len(m))]
             ELSE [tag |-> None, i |-> 0]
    ELSE [tag |-> None, i |-> 0]

\* process_chunk, the bare leading tag: the tag matched (or None) and the scan
\* cursor i after it
LeadingTag(allowed, non_ws, combined) ==
    IF ~non_ws /\ allowed # {} /\ combined # <<>>
    THEN LET j == SkipSpace(combined, 0)
             m == IF j < Len(combined)
                  THEN LeadingTagMatch(allowed, Slice(combined, j, Len(combined)))
                  ELSE None
         IN  IF m # None
             THEN [tag |-> m, i |-> SkipSpace(combined, j + Len(m))]
             ELSE [tag |-> None, i |-> 0]
    ELSE [tag |-> None, i |-> 0]

\* the span branch that leaves a disallowed span where it is and drops only the text
\* before it
ScanSpanKeepsSpanOnly(allowed, combined, i, open_idx, close_idx) ==
    LET inner == Strip(Slice(combined, open_idx + 1, close_idx))
    IN  IF allowed = {} \/ inner \in allowed
        THEN [text |-> Slice(combined, i, open_idx),
              src |-> Range(i, open_idx),
              tags |-> <<inner>>]
        ELSE [text |-> Slice(combined, open_idx, close_idx + 1),
              src |-> Range(open_idx, close_idx + 1),
              tags |-> <<>>]

\* the span branch without "not self.allowed_set or": with an empty allowed set no
\* span is a tag
ScanSpanNoPermissive(allowed, combined, i, open_idx, close_idx) ==
    LET inner == Strip(Slice(combined, open_idx + 1, close_idx))
    IN  IF inner \in allowed
        THEN [text |-> Slice(combined, i, open_idx),
              src |-> Range(i, open_idx),
              tags |-> <<inner>>]
        ELSE [text |-> <<>>, src |-> <<>>, tags |-> <<>>]

\* the span branch with the text before a disallowed span appended to out_parts: only
\* the span itself is dropped
ScanSpanKeepsTextBefore(allowed, combined, i, open_idx, close_idx) ==
    LET inner == Strip(Slice(combined, open_idx + 1, close_idx))
    IN  [text |-> Slice(combined, i, open_idx),
         src |-> Range(i, open_idx),
         tags |-> IF allowed = {} \/ inner \in allowed THEN <<inner>> ELSE <<>>]

\* the span branch with the cursor slice taken up to the "]" instead of the "[": an
\* allowed tag is reported and also left in the text
ScanSpanKeepsTagText(allowed, combined, i, open_idx, close_idx) ==
    LET inner == Strip(Slice(combined, open_idx + 1, close_idx))
    IN  IF allowed = {} \/ inner \in allowed
        THEN [text |-> Slice(combined, i, close_idx + 1),
              src |-> Range(i, close_idx + 1),
              tags |-> <<inner>>]
        ELSE [text |-> <<>>, src |-> <<>>, tags |-> <<>>]

\* the span branch with EmotionTagParser's else branch: a disallowed span is kept as
\* text up to and including "]"
ScanSpanKeepsDisallowed(allowed, combined, i, open_idx, close_idx) ==
    LET inner == Strip(Slice(combined, open_idx + 1, close_idx))
    IN  IF allowed = {} \/ inner \in allowed
        THEN [text |-> Slice(combined, i, open_idx),
              src |-> Range(i, open_idx),
              tags |-> <<inner>>]
        ELSE [text |-> Slice(combined, i, close_idx + 1),
              src |-> Range(i, close_idx + 1),
              tags |-> <<>>]

\* process_chunk, the branch taken for one complete span combined[open_idx..close_idx]
\* with the cursor at i: what is appended to out_parts (src: the indices of combined
\* it comes from) and to tags_found
ScanSpan(allowed, combined, i, open_idx, close_idx) ==
    LET inner == Strip(Slice(combined, open_idx + 1, close_idx))
    IN  IF allowed = {} \/ inner \in allowed
        THEN [text |-> Slice(combined, i, open_idx),
              src |-> Range(i, open_idx),
              tags |-> <<inner>>]
        ELSE [text |-> <<>>, src |-> <<>>, tags |-> <<>>]

\* the loop with each result put in front of the earlier ones: tags_found comes out
\* right to left
RECURSIVE ScanLoopPrepends(_, _, _, _)
ScanLoopPrepends(allowed, combined, i, acc) ==
    LET open_idx == Find(combined, LBRACKET, i)
        close_idx == Find(combined, RBRACKET, open_idx + 1)
    IN  IF open_idx = -1 THEN [acc EXCEPT !.i = i]
        ELSE IF close_idx = -1 THEN [acc EXCEPT !.i = i]
        ELSE LET span == ScanSpan(allowed, combined, i, open_idx, close_idx)
             IN  ScanLoopPrepends(allowed, combined, close_idx + 1,
                                  [i |-> close_idx + 1,
                                   text |-> acc.text \o span.text,
                                   src |-> acc.src \o span.src,
                                   tags |-> span.tags \o acc.tags])

\* process_chunk, the while True loop, from cursor i with the results so far in acc
RECURSIVE ScanLoop(_, _, _, _)
ScanLoop(allowed, combined, i, acc) ==
    LET open_idx == Find(combined, LBRACKET, i)
        close_idx == Find(combined, RBRACKET, open_idx + 1)
    IN  IF open_idx = -1 THEN [acc EXCEPT !.i = i]
        ELSE IF close_idx = -1 THEN [acc EXCEPT !.i = i]
        ELSE LET span == ScanSpan(allowed, combined, i, open_idx, close_idx)
             IN  ScanLoop(allowed, combined, close_idx + 1,
                          [i |-> close_idx + 1,
                           text |-> acc.text \o span.text,
                           src |-> acc.src \o span.src,
                           tags |-> acc.tags \o span.tags])

\* the tail handling without the carry branch: the whole tail is emitted
TailEmitLenFlushesAll(tail) == Len(tail)

\* the tail handling with find in place of rfind: the tail is split at its first "["
TailEmitLenFirstOpen(tail) ==
    LET first_open == Find(tail, LBRACKET, 0)
        last_close == RFind(tail, RBRACKET)
    IN  IF first_open # -1 /\ (last_close = -1 \/ first_open > last_close)
        THEN first_open
        ELSE Len(tail)

\* the tail handling without "out_parts.append(tail[:last_open])" and with the whole
\* tail carried: the text before the "[" is withheld too
TailEmitLenCarriesTail(tail) ==
    LET last_open == RFind(tail, LBRACKET)
        last_close == RFind(tail, RBRACKET)
    IN  IF last_open # -1 /\ (last_close = -1 \/ last_open > last_close)
        THEN 0
        ELSE Len(tail)

\* process_chunk, the tail after the loop: how many characters of the tail are
\* emitted now (the rest is the new carry)
TailEmitLen(tail) ==
    LET last_open == RFind(tail, LBRACKET)
        last_close == RFind(tail, RBRACKET)
    IN  IF last_open # -1 /\ (last_close = -1 \/ last_open > last_close)
        THEN last_open
        ELSE Len(tail)

\* the early return turned into a flush: an empty chunk returns the carry and clears it
EarlyReturnFlushes(self) ==
    [carry |-> <<>>, last_tag |-> self.last_tag,
     has_output_text |-> self.has_output_text,
     has_output_non_ws |-> self.has_output_non_ws,
     text |-> self.carry, tags |-> <<>>, src |-> <<>>, bare |-> FALSE,
     combined |-> <<>>]

\* process_chunk, "if not chunk: return "", []": nothing is read or written
EarlyReturn(self) ==
    [carry |-> self.carry, last_tag |-> self.last_tag,
     has_output_text |-> self.has_output_text,
     has_output_non_ws |-> self.has_output_non_ws,
     text |-> <<>>, tags |-> <<>>, src |-> <<>>, bare |-> FALSE,
     combined |-> <<>>]

\* process_chunk without "self._last_tag = tag" in the bare leading tag branch: the
\* bare tag is reported but not remembered
ProcessChunkBareTagNotKept(self, chunk) ==
    IF chunk = <<>> THEN EarlyReturn(self)
    ELSE
    LET combined == self.carry \o FilterChars(self.strip_non_english, chunk)
        lead == LeadingTag(self.allowed_set, self.has_output_non_ws, combined)
        lead_tags == IF lead.tag # None THEN <<lead.tag>> ELSE <<>>
        scan == ScanLoop(self.allowed_set, combined, lead.i,
                         [i |-> lead.i, text |-> <<>>, src |-> <<>>, tags |-> lead_tags])
        tail == Slice(combined, scan.i, Len(combined))
        n == TailEmitLen(tail)
        text_out == scan.text \o Slice(tail, 0, n)
    IN  [carry |-> Slice(tail, n, Len(tail)),
         last_tag |-> IF Len(scan.tags) > Len(lead_tags) THEN scan.tags[Len(scan.tags)]
                      ELSE self.last_tag,
         has_output_text |-> self.has_output_text \/ text_out # <<>>,
         has_output_non_ws |-> self.has_output_non_ws \/ HasNonSpace(text_out),
         text |-> text_out,
         tags |-> scan.tags,
         src |-> scan.src \o Range(scan.i, scan.i + n),
         bare |-> lead.tag # None,
         combined |-> combined]

\* process_chunk(chunk) on a parser in state self: the new fields and the result.
\* src lists, for each character of text, its index in combined; bare tells whether
\* the leading bare tag matched.  last_tag is assigned at every recognition, so it
\* ends as the last element of tags_found.
ProcessChunk(self, chunk) ==
    IF chunk = <<>> THEN EarlyReturn(self)
    ELSE
    LET combined == self.carry \o FilterChars(self.strip_non_english, chunk)
        lead == LeadingTag(self.allowed_set, self.has_output_non_ws, combined)
        lead_tags == IF lead.tag # None THEN <<lead.tag>> ELSE <<>>
        scan == ScanLoop(self.allowed_set, combined, lead.i,
                         [i |-> lead.i, text |-> <<>>, src |-> <<>>, tags |-> lead_tags])
        tail == Slice(combined, scan.i, Len(combined))
        n == TailEmitLen(tail)
        text_out == scan.text \o Slice(tail, 0, n)
    IN  [carry |-> Slice(tail, n, Len(tail)),
         last_tag |-> IF scan.tags # <<>> THEN scan.tags[Len(scan.tags)]
                      ELSE self.last_tag,
         has_output_text |-> self.has_output_text \/ text_out # <<>>,
         has_output_non_ws |-> self.has_output_non_ws \/ HasNonSpace(text_out),
         text |-> text_out,
         tags |-> scan.tags,
         src |-> scan.src \o Range(scan.i, scan.i + n),
         bare |-> lead.tag # None,
         combined |-> combined]

\* finish() without 'self._carry = ""': the carry is returned and kept
FinishKeepsCarry(self) ==
    [carry |-> self.carry, text |-> self.carry, tag |-> self.last_tag]

\* finish() without its second result: no tag is reported
FinishForgetsTag(self) ==
    [carry |-> <<>>, text |-> self.carry, tag |-> None]

\* finish(): the new fields and the result
Finish(self) ==
    [carry |-> <<>>, text |-> self.carry, tag |-> self.last_tag]

(***************************************************************************)
(* EmotionTagParser.                                                       *)
(***************************************************************************)
\* the emotion span branch with StreamTextParser's else branch: a span that is no
\* allowed emotion is dropped with the text before it
EmotionScanSpanDropsDisallowed(allowed, combined, i, open_idx, close_idx) ==
    LET inner == Strip(Slice(combined, open_idx + 1, close_idx))
    IN  IF inner \in allowed
        THEN [text |-> Slice(combined, i, open_idx),
              src |-> Range(i, open_idx),
              tags |-> <<inner>>]
        ELSE [text |-> <<>>, src |-> <<>>, tags |-> <<>>]

\* the emotion span branch with the cursor slice taken up to the "]": an allowed tag
\* is reported and also left in the text
EmotionScanSpanKeepsTagText(allowed, combined, i, open_idx, close_idx) ==
    LET inner == Strip(Slice(combined, open_idx + 1, close_idx))
    IN  [text |-> Slice(combined, i, close_idx + 1),
         src |-> Range(i, close_idx + 1),
         tags |-> IF inner \in allowed THEN <<inner>> ELSE <<>>]

\* process_chunk, the branch taken for one complete span: an allowed tag is dropped
\* and reported, anything else is kept as text up to and including "]"
EmotionScanSpan(allowed, combined, i, open_idx, close_idx) ==
    LET inner == Strip(Slice(combined, open_idx + 1, close_idx))
    IN  IF inner \in allowed
        THEN [text |-> Slice(combined, i, open_idx),
              src |-> Range(i, open_idx),
              tags |-> <<inner>>]
        ELSE [text |-> Slice(combined, i, close_idx + 1),
              src |-> Range(i, close_idx + 1),
              tags |-> <<>>]

\* process_chunk, the while True loop
RECURSIVE EmotionScanLoop(_, _, _, _)
EmotionScanLoop(allowed, combined, i, acc) ==
    LET open_idx == Find(combined, LBRACKET, i)
        close_idx == Find(combined, RBRACKET, open_idx + 1)
    IN  IF open_idx = -1 THEN [acc EXCEPT !.i = i]
        ELSE IF close_idx = -1 THEN [acc EXCEPT !.i = i]
        ELSE LET span == EmotionScanSpan(allowed, combined, i, open_idx, close_idx)
             IN  EmotionScanLoop(allowed, combined, close_idx + 1,
                                 [i |-> close_idx + 1,
                                  text |-> acc.text \o span.text,
                                  src |-> acc.src \o span.src,
                                  tags |-> acc.tags \o span.tags])

\* process_chunk, the tail after the loop: the number of characters emitted now
EmotionTailEmitLen(tail) ==
    LET last_open == RFind(tail, LBRACKET)
        last_close == RFind(tail, RBRACKET)
    IN  IF last_open # -1 /\ (last_close = -1 \/ last_open > last_close)
        THEN last_open
        ELSE Len(tail)

\* process_chunk, "if not chunk: return "", []"
EmotionEarlyReturn(self) ==
    [carry |-> self.carry, last_emotion |-> self.last_emotion,
     text |-> <<>>, tags |-> <<>>, src |-> <<>>, combined |-> <<>>]

\* process_chunk(chunk) on an EmotionTagParser in state self
EmotionProcessChunk(self, chunk) ==
    IF chunk = <<>> THEN EmotionEarlyReturn(self)
    ELSE
    LET combined == self.carry \o chunk
        scan == EmotionScanLoop(self.allowed_set, combined, 0,
                                [i |-> 0, text |-> <<>>, src |-> <<>>, tags |-> <<>>])
        tail == Slice(combined, scan.i, Len(combined))
        n == EmotionTailEmitLen(tail)
    IN  [carry |-> Slice(tail, n, Len(tail)),
         last_emotion |-> IF scan.tags # <<>> THEN scan.tags[Len(scan.tags)]
                          ELSE self.last_emotion,
         text |-> scan.text \o Slice(tail, 0, n),
         tags |-> scan.tags,
         src |-> scan.src \o Range(scan.i, scan.i + n),
         combined |-> combined]

\* finish()
EmotionFinish(self) ==
    [carry |-> <<>>, text |-> self.carry, tag |-> self.last_emotion]

(***************************************************************************)
(* The instance and the calls made on it.                                  *)
(***************************************************************************)
\* the characters of the model's fragments: without _filter_chars U+00E9 is
\* one more character that is neither a bracket, a space nor part of a tag name;
\* the configuration with the name "H." gets "." in its place, which is both a
\* character of a name and one of the delimiters of the leading-tag pattern
Chars ==
    IF strip_non_english THEN Alphabet
    ELSE IF TagHDot \in allowed_set THEN (Alphabet \ {233}) \cup {46}
    ELSE Alphabet \ {233}

\* all texts of at most n characters
Texts(n) == UNION {[1..k -> Chars] : k \in 0..n}

RECURSIVE Concat(_)
Concat(ss) == IF ss = <<>> THEN <<>> ELSE Head(ss) \o Concat(Tail(ss))

\* every character passed to process_chunk so far, in order
Input == Concat([k \in 1..Len(calls) |-> calls[k].chunk])

\* the chunks a next call may pass: the characters left within the bound
Chunks(bound) == Texts(bound - Len(Input))

\* the input as the scanner sees it (after _filter_chars)
Stream == FilterChars(strip_non_english, Input)

\* every clean_text returned by process_chunk so far, concatenated
Emitted == Concat([k \in 1..Len(calls) |-> calls[k].text])

\* every tags_found returned by process_chunk so far, concatenated
TagsFound == Concat([k \in 1..Len(calls) |-> calls[k].tags])

\* the indices of Stream whose characters process_chunk has returned as clean text
EmittedPos == UNION {{calls[k].pos[n] : n \in 1..Len(calls[k].pos)} : k \in 1..Len(calls)}

Self == [allowed_set |-> allowed_set, strip_non_english |-> strip_non_english,
         carry |-> carry, last_tag |-> last_tag,
         has_output_text |-> has_output_text,
         has_output_non_ws |-> has_output_non_ws]

EmotionSelf == [allowed_set |-> allowed_set, carry |-> carry, last_emotion |-> last_tag]

\* EmotionTagParser(allowed_emotions, default_emotion): the default of the model
DefaultEmotion == <<120>>

\* the constructor calls of the model
Configs ==
    [kind : {"StreamTextParser"}, allowed : {{}, {TagH}},
     strip : BOOLEAN, initial : {None}]
    \cup
    [kind : {"StreamTextParser"}, allowed : {{TagH, TagHx, TagHDot}},
     strip : {FALSE}, initial : {None}]
    \cup
    [kind : {"EmotionTagParser"}, allowed : {{TagH}},
     strip : {FALSE}, initial : {DefaultEmotion}]

Init ==
    \E c \in Configs :
        /\ kind = c.kind
        /\ allowed_set = c.allowed
        /\ strip_non_english = c.strip
        /\ carry = <<>>
        /\ last_tag = c.initial
        /\ has_output_text = FALSE
        /\ has_output_non_ws = FALSE
        /\ calls = <<>>
        /\ ret = [op |-> "init", chunk |-> <<>>, text |-> <<>>, tags |-> <<>>, tag |-> None,
                  raised |-> FALSE]
        /\ finish_count = 0
        /\ NoChat /\ NoLLM /\ NoWs /\ NoFmt

\* the history of a call with a non-empty chunk: r.src holds indices of combined,
\* which ends where the filtered input ends; base is the index of Stream at which
\* combined starts
Logged(chunk, r) ==
    LET base == Len(Stream) + Len(FilterChars(strip_non_english, chunk)) - Len(r.combined)
    IN  Append(calls, [chunk |-> chunk, text |-> r.text, tags |-> r.tags,
                       pos |-> [n \in 1..Len(r.src) |-> base + r.src[n]],
                       bare |-> r.bare, base |-> base])

\* what a process_chunk(chunk) call does to the instance and what it returns
process_chunk_effect(chunk) ==
    /\ LET r == ProcessChunk(Self, chunk)
       IN  /\ carry' = r.carry
           /\ last_tag' = r.last_tag
           /\ has_output_text' = r.has_output_text
           /\ has_output_non_ws' = r.has_output_non_ws
           /\ calls' = IF chunk = <<>> THEN calls ELSE Logged(chunk, r)
           /\ ret' = [op |-> "process_chunk", chunk |-> chunk, text |-> r.text,
                      tags |-> r.tags, tag |-> None, raised |-> FALSE]
    /\ UNCHANGED <<kind, allowed_set, strip_non_english, finish_count, app_vars>>

\* process_chunk(chunk) with an invalid-state check at its start: after finish() the
\* call raises and touches nothing
process_chunk_checks_finished(chunk) ==
    /\ kind = "StreamTextParser"
    /\ IF finish_count > 0
       THEN /\ ret' = [op |-> "process_chunk", chunk |-> chunk, text |-> <<>>,
                       tags |-> <<>>, tag |-> None, raised |-> TRUE]
            /\ UNCHANGED <<kind, allowed_set, strip_non_english, carry, last_tag,
                           has_output_text, has_output_non_ws, calls, finish_count,
                           app_vars>>
       ELSE process_chunk_effect(chunk)

\* StreamTextParser.process_chunk(chunk): the method has no raise statement and reads
\* nothing that finish() sets apart from the carry, so it returns in every state
process_chunk(chunk) ==
    /\ kind = "StreamTextParser"
    /\ process_chunk_effect(chunk)

\* StreamTextParser.finish()
finish ==
    /\ kind = "StreamTextParser"
    /\ finish_count < MaxFinish
    /\ LET r == Finish(Self)
       IN  /\ carry' = r.carry
           /\ ret' = [op |-> "finish", chunk |-> <<>>, text |-> r.text,
                      tags |-> <<>>, tag |-> r.tag, raised |-> FALSE]
    /\ finish_count' = finish_count + 1
    /\ UNCHANGED <<kind, allowed_set, strip_non_english, last_tag, has_output_text,
                   has_output_non_ws, calls, app_vars>>

\* EmotionTagParser.process_chunk(chunk)
emotion_process_chunk(chunk) ==
    /\ kind = "EmotionTagParser"
    /\ LET r == EmotionProcessChunk(EmotionSelf, chunk)
       IN  /\ carry' = r.carry
           /\ last_tag' = r.last_emotion
           /\ calls' = IF chunk = <<>> THEN calls
                       ELSE Logged(chunk, [bare |-> FALSE] @@ r)
           /\ ret' = [op |-> "process_chunk", chunk |-> chunk, text |-> r.text,
                      tags |-> r.tags, tag |-> None, raised |-> FALSE]
    /\ UNCHANGED <<kind, allowed_set, strip_non_english, has_output_text,
                   has_output_non_ws, finish_count, app_vars>>

\* EmotionTagParser.finish()
emotion_finish ==
    /\ kind = "EmotionTagParser"
    /\ finish_count < MaxFinish
    /\ LET r == EmotionFinish(EmotionSelf)
       IN  /\ carry' = r.carry
           /\ ret' = [op |-> "finish", chunk |-> <<>>, text |-> r.text,
                      tags |-> <<>>, tag |-> r.tag, raised |-> FALSE]
    /\ finish_count' = finish_count + 1
    /\ UNCHANGED <<kind, allowed_set, strip_non_english, last_tag, has_output_text,
                   has_output_non_ws, calls, app_vars>>

\* One stream: fragments are processed, then the stream is finished.
Next ==
    \/ finish_count = 0 /\ \E chunk \in Chunks(MaxLen) : process_chunk(chunk)
    \/ finish
    \/ finish_count = 0 /\ \E chunk \in Chunks(MaxLen) : emotion_process_chunk(chunk)
    \/ emotion_finish

Spec == Init /\ [][Next]_vars

\* Any order of calls: nothing in either class stops a call after finish().
NextAnyOrder ==
    \/ \E chunk \in Chunks(MaxReuseLen) : process_chunk(chunk)
    \/ finish
    \/ \E chunk \in Chunks(MaxReuseLen) : emotion_process_chunk(chunk)
    \/ emotion_finish

SpecAnyOrder == Init /\ [][NextAnyOrder]_vars

\* Streams of tags: a StreamTextParser without filtering, permissive or with the two
\* one-letter names "H" and "x", is fed longer inputs, so that one call can recognise
\* two different tags; the permissive instance gets brackets and "H" only.
OrderConfigs == {{}, {TagH, TagX}}

OrderChars ==
    IF allowed_set = {} THEN {72, LBRACKET, RBRACKET}
    ELSE {32, 72, 120, LBRACKET, RBRACKET}

OrderChunks == UNION {[1..k -> OrderChars] : k \in 1..(MaxOrderLen - Len(Input))}

InitOrder ==
    /\ kind = "StreamTextParser"
    /\ allowed_set \in OrderConfigs
    /\ strip_non_english = FALSE
    /\ carry = <<>>
    /\ last_tag = None
    /\ has_output_text = FALSE
    /\ has_output_non_ws = FALSE
    /\ calls = <<>>
    /\ ret = [op |-> "init", chunk |-> <<>>, text |-> <<>>, tags |-> <<>>, tag |-> None,
              raised |-> FALSE]
    /\ finish_count = 0
    /\ NoChat /\ NoLLM /\ NoWs /\ NoFmt

\* fragments are processed, then the stream is finished once
NextOrder ==
    \/ finish_count = 0 /\ \E chunk \in OrderChunks : process_chunk(chunk)
    \/ finish_count = 0 /\ finish

SpecOrder == InitOrder /\ [][NextOrder]_vars

(***************************************************************************)
(* Vocabulary of the properties: the input as one logical string.          *)
(***************************************************************************)
IsStream == kind = "StreamTextParser"

\* a new parser with the configuration of this one
Fresh == [allowed_set |-> allowed_set, strip_non_english |-> strip_non_english,
          carry |-> <<>>, last_tag |-> None,
          has_output_text |-> FALSE, has_output_non_ws |-> FALSE]

\* the first finish() has just returned
JustFinished == ret.op = "finish" /\ finish_count = 1

\* the indices of Stream returned as text so far, by process_chunk or by finish()
ReturnedPos ==
    EmittedPos \cup (IF JustFinished
                     THEN (Len(Stream) - Len(ret.text))..(Len(Stream) - 1) ELSE {})

IsBracket(c) == c \in {LBRACKET, RBRACKET}

\* the complete bracketed spans of the input: "[" at p, "]" at q, no bracket between
Spans ==
    {pq \in (0..(Len(Stream) - 1)) \X (0..(Len(Stream) - 1)) :
        /\ pq[1] < pq[2]
        /\ At(Stream, pq[1]) = LBRACKET
        /\ At(Stream, pq[2]) = RBRACKET
        /\ \A k \in (pq[1] + 1)..(pq[2] - 1) : ~IsBracket(At(Stream, k))}

\* the name of a span, surrounding spaces ignored
NameOf(pq) == Strip(Slice(Stream, pq[1] + 1, pq[2]))

\* the "[" of the span is the first "[" since the previous "]" (or the start)
IsFirstOpen(pq) ==
    \A k \in 0..(pq[1] - 1) :
        At(Stream, k) = LBRACKET =>
            \E j \in (k + 1)..(pq[1] - 1) : At(Stream, j) = RBRACKET

\* the length of the filtered input after the first k logged calls
StreamLenAfter(k) ==
    Len(FilterChars(strip_non_english, Concat([n \in 1..k |-> calls[n].chunk])))

\* the logged call that received index q of Stream
CallOf(q) == Min({k \in 1..Len(calls) : StreamLenAfter(k) > q})

\* the tags a logged call reported from brackets (a bare leading tag comes first)
BracketTags(k) == IF calls[k].bare THEN Tail(calls[k].tags) ELSE calls[k].tags

Count(t, tags) == Cardinality({n \in 1..Len(tags) : tags[n] = t})

(***************************************************************************)
(* C1                                                                      *)
(***************************************************************************)
\* the text a consumer gets when the whole input is processed as one fragment and
\* the stream is then finished
WholeText ==
    LET r == ProcessChunk(Fresh, Input)
    IN  r.text \o Finish([Fresh EXCEPT !.carry = r.carry]).text

\* C1: fragmentation invariance of StreamTextParser: once the stream is finished,
\* the clean texts of the fragments followed by the finish() residual equal the clean
\* text of the whole input processed as a single fragment followed by its residual.
C1_FragmentationInvariance ==
    (IsStream /\ JustFinished) => Emitted \o ret.text = WholeText

(***************************************************************************)
(* C2                                                                      *)
(***************************************************************************)
\* the complete spans of the input whose name is an allowed tag
AllowedSpans == {pq \in Spans : NameOf(pq) \in allowed_set}

\* those closed by a character of the k-th logged call and named t
ClosedIn(spans, k, t) == {pq \in spans : CallOf(pq[2]) = k /\ NameOf(pq) = t}

\* C2 as stated: every complete span [Name] of the input with Name in allowed_tags
\* is never returned as clean text and is reported exactly once, by the call that
\* receives its closing bracket.
C2_AllowedSpanReportedOnce ==
    (IsStream /\ allowed_set # {}) =>
        /\ \A pq \in AllowedSpans : ReturnedPos \cap (pq[1]..pq[2]) = {}
        /\ \A k \in 1..Len(calls) : \A t \in allowed_set :
               Count(t, BracketTags(k)) = Cardinality(ClosedIn(AllowedSpans, k, t))

\* C2 (amended): a complete span [Name] of the input with Name in allowed_tags is
\* never returned as clean text and is reported at most once, only by the call that
\* receives its closing bracket; it is reported by that call whenever its "[" is the
\* first "[" since the previous "]" (or since the start of the stream).
C2_FirstOpenSpanReportedOnce ==
    (IsStream /\ allowed_set # {}) =>
        /\ \A pq \in AllowedSpans : ReturnedPos \cap (pq[1]..pq[2]) = {}
        /\ \A k \in 1..Len(calls) : \A t \in allowed_set :
               /\ Count(t, BracketTags(k)) <= Cardinality(ClosedIn(AllowedSpans, k, t))
               /\ Count(t, BracketTags(k)) >=
                      Cardinality(ClosedIn({pq \in AllowedSpans : IsFirstOpen(pq)}, k, t))

\* C2 witness: the scenario "x", "[H", "]" with allowed {H}: the calls return
\* ("x", []), ("", []), ("", [H]) and finish() returns ("", H).
C2_Witness ==
    /\ IsStream /\ allowed_set = {TagH} /\ JustFinished
    /\ [k \in 1..Len(calls) |-> calls[k].chunk] = <<<<120>>, <<LBRACKET, 72>>, <<RBRACKET>>>>
    /\ [k \in 1..Len(calls) |-> calls[k].text] = <<<<120>>, <<>>, <<>>>>
    /\ [k \in 1..Len(calls) |-> calls[k].tags] = <<<<>>, <<>>, <<TagH>>>>
    /\ ret.text = <<>> /\ ret.tag = TagH

(***************************************************************************)
(* C3                                                                      *)
(***************************************************************************)
\* C3: with a non-empty allowed_tags, a complete span [Name] of the input with Name
\* not in allowed_tags is never returned as clean text, and every reported tag, the
\* last tag and the tag returned by finish() is an allowed tag (or the initial None).
C3_DisallowedSpanDropped ==
    (IsStream /\ allowed_set # {}) =>
        /\ \A pq \in Spans :
               NameOf(pq) \notin allowed_set => ReturnedPos \cap (pq[1]..pq[2]) = {}
        /\ \A n \in 1..Len(TagsFound) : TagsFound[n] \in allowed_set
        /\ \A n \in 1..Len(ret.tags) : ret.tags[n] \in allowed_set
        /\ last_tag \in allowed_set \cup {None}
        /\ ret.op = "finish" => ret.tag \in allowed_set \cup {None}

\* C3 witness: a finished stream that held a disallowed span, text around it and an
\* allowed tag.
C3_Witness ==
    /\ IsStream /\ allowed_set # {} /\ JustFinished
    /\ \E pq \in Spans : NameOf(pq) \notin allowed_set
    /\ Emitted # <<>>
    /\ ret.tag \in allowed_set

(***************************************************************************)
(* C4                                                                      *)
(***************************************************************************)
\* the index of the last "[" of the input when no "]" follows it, else -1
OpenAt ==
    LET p == RFind(Stream, LBRACKET)
    IN  IF p # -1 /\ RFind(Stream, RBRACKET) < p THEN p ELSE -1

\* C4: while the last "[" of the input is unterminated, no process_chunk call has
\* returned any character from that "[" onward, and the text from it onward is what
\* is withheld; when the stream is finished in that situation, finish() returns
\* exactly that text, which starts with the "[".
C4_OpenBracketWithheld ==
    (IsStream /\ OpenAt # -1) =>
        /\ EmittedPos \cap (OpenAt..(Len(Stream) - 1)) = {}
        /\ finish_count = 0 => carry = Slice(Stream, OpenAt, Len(Stream))
        /\ JustFinished =>
               /\ ret.text = Slice(Stream, OpenAt, Len(Stream))
               /\ Head(ret.text) = LBRACKET

\* C4 witness: "[" arrived in one call, more text in a later one, and finish()
\* returned both.
C4_Witness ==
    /\ IsStream /\ JustFinished /\ OpenAt # -1
    /\ Len(calls) >= 2
    /\ CallOf(OpenAt) < Len(calls)
    /\ Len(ret.text) >= 3

(***************************************************************************)
(* C6                                                                      *)
(***************************************************************************)
\* C6: with strip_non_english set, every clean_text returned by process_chunk and
\* the residual returned by finish() hold only tab, line feed, carriage return and
\* printable ASCII.
C6_OnlyProseReturned ==
    (IsStream /\ strip_non_english) =>
        /\ \A n \in 1..Len(Emitted) : IsProse(Emitted[n])
        /\ \A n \in 1..Len(ret.text) : IsProse(ret.text[n])
        /\ \A n \in 1..Len(carry) : IsProse(carry[n])

\* C6 witness: a fragment that starts with a non-prose character closed a span whose
\* tag was reported, and text was returned.
C6_Witness ==
    /\ IsStream /\ strip_non_english
    /\ \E pq \in Spans : \E k \in 1..Len(calls) :
           /\ CallOf(pq[2]) = k
           /\ calls[k].tags # <<>>
           /\ ~IsProse(calls[k].chunk[1])
    /\ Emitted # <<>>

(***************************************************************************)
(* C7                                                                      *)
(***************************************************************************)
\* the length of the longest tag name seen: the allowed names and the reported tags
LongestTag ==
    LET names == allowed_set \cup {TagsFound[n] : n \in 1..Len(TagsFound)}
    IN  IF names = {} THEN 0 ELSE Max({Len(t) : t \in names})

C8_CarryIsOpenBracket ==
    \/ carry = <<>>
    \/ /\ Head(carry) = LBRACKET
       /\ \A n \in 2..Len(carry) : ~IsBracket(carry[n])

\* C8 witness: a process_chunk call whose input held text and several brackets left
\* a carry.
C8_Witness ==
    /\ ret.op = "process_chunk"
    /\ carry # <<>>
    /\ Len(ret.chunk) > Len(carry)
    /\ Cardinality({n \in 1..Len(ret.chunk) : IsBracket(ret.chunk[n])}) >= 2

(***************************************************************************)
(* C9                                                                      *)
(***************************************************************************)
\* C9: over all process_chunk calls on one instance, at most one reports a bare
\* leading tag.
C9_BareTagAtMostOnce ==
    IsStream => Cardinality({k \in 1..Len(calls) : calls[k].bare}) <= 1

(***************************************************************************)
(* C10                                                                     *)
(***************************************************************************)
\* C10: a process_chunk("") call, in any state of either parser, returns ("", [])
\* and leaves carry, last_tag and both has-output flags unchanged.
C10_EmptyChunkNoOp ==
    [][(ret'.op = "process_chunk" /\ ret'.chunk = <<>>) =>
          /\ ret'.text = <<>> /\ ret'.tags = <<>>
          /\ carry' = carry
          /\ last_tag' = last_tag
          /\ has_output_text' = has_output_text
          /\ has_output_non_ws' = has_output_non_ws]_vars

\* C10 witness: process_chunk("") has returned on an instance that holds a carry, a
\* recognised tag and a set flag.
C10_Witness ==
    /\ ret.op = "process_chunk" /\ ret.chunk = <<>>
    /\ carry # <<>>
    /\ last_tag # None
    /\ has_output_non_ws

(***************************************************************************)
(* C11                                                                     *)
(***************************************************************************)
\* a fragment without brackets whose characters all pass the filter of this instance
PlainFragment(chunk) ==
    \A n \in 1..Len(chunk) :
        ~IsBracket(chunk[n]) /\ (strip_non_english => IsProse(chunk[n]))

\* after leading whitespace the text begins with an allowed tag name that is followed
\* by whitespace, one of . , ! ? : ; or the end of the text
StartsWithTagName(text) ==
    \E t \in allowed_set : \E j \in 0..Len(text) :
        /\ \A n \in 0..(j - 1) : IsSpace(At(text, n))
        /\ j + Len(t) <= Len(text)
        /\ Slice(text, j, j + Len(t)) = t
        /\ \/ j + Len(t) = Len(text)
           \/ IsTagDelimiter(At(text, j + Len(t)))

\* C11 as stated: the first fragment of a stream, when it holds no bracket and only
\* characters the filter keeps, is returned unchanged with an empty tag list, under
\* every configuration.
C11_PlainFragmentUnchanged ==
    (IsStream /\ Len(calls) >= 1 /\ PlainFragment(calls[1].chunk)) =>
        calls[1].text = calls[1].chunk /\ calls[1].tags = <<>>

\* C11: the first fragment of a stream, when it holds no bracket and only characters
\* the filter keeps, and does not begin (after whitespace) with an allowed tag name
\* followed by a delimiter or its end, is returned unchanged with an empty tag list.
C11_PlainFragmentWithoutTagNameUnchanged ==
    (/\ IsStream /\ Len(calls) >= 1
     /\ PlainFragment(calls[1].chunk)
     /\ ~StartsWithTagName(calls[1].chunk)) =>
        calls[1].text = calls[1].chunk /\ calls[1].tags = <<>>

\* C11 witness: with allowed {H} the first fragment " Hx" came back unchanged: the
\* tag name is there but "x" follows it.
C11_Witness ==
    /\ IsStream /\ allowed_set = {TagH}
    /\ Len(calls) = 1
    /\ calls[1].chunk = <<32, 72, 120>>
    /\ calls[1].text = calls[1].chunk
    /\ calls[1].tags = <<>>

(***************************************************************************)
(* C12                                                                     *)
(***************************************************************************)
\* the last tag process_chunk has reported so far; None when it has reported none
LastReported == IF TagsFound # <<>> THEN TagsFound[Len(TagsFound)] ELSE None

C13_FinishReturnsCarryOnce ==
    [][ret'.op = "finish" =>
          /\ ret'.text = carry
          /\ carry' = <<>>
          /\ ret.op = "finish" => (ret'.text = <<>> /\ ret'.tag = ret.tag)]_vars

\* C13 witness: a second finish() has returned empty text and a recognized tag on an
\* instance whose input ends in an unterminated "[".
C13_Witness ==
    /\ ret.op = "finish"
    /\ finish_count = 2
    /\ OpenAt # -1
    /\ Len(calls) >= 2
    /\ ret.text = <<>>
    /\ ret.tag # None
    /\ carry = <<>>

(***************************************************************************)
(* C14                                                                     *)
(***************************************************************************)
\* the index after the last "]" before index p of Stream, 0 when there is none
AfterPrevClose(p) ==
    Max({0} \cup {j + 1 : j \in {n \in 0..(p - 1) : At(Stream, n) = RBRACKET}})

\* the indices of Stream from the later of the previous "]" and the start of the
\* working buffer of call k, up to and including index q
GapAndSpan(k, pq) == Max({AfterPrevClose(pq[1]), calls[k].base})..pq[2]

\* the indices of Stream after index q in the working buffer of call k, when no
\* bracket follows q there; {} otherwise
PlainAfter(k, q) ==
    IF \A n \in (q + 1)..(StreamLenAfter(k) - 1) : ~IsBracket(At(Stream, n))
    THEN (q + 1)..(StreamLenAfter(k) - 1) ELSE {}

ScanFrom(k, q) == Max({AfterPrevClose(q), calls[k].base})

\* the '[...]' pairs the scanner finds in call k: each "]" received by the call, with
\* the first "[" since the previous "]" (or the start of the working buffer)
ScannerPairs(k) ==
    {pq \in (0..(Len(Stream) - 1)) \X (0..(Len(Stream) - 1)) :
        /\ At(Stream, pq[2]) = RBRACKET
        /\ CallOf(pq[2]) = k
        /\ ScanFrom(k, pq[2]) <= pq[1] /\ pq[1] < pq[2]
        /\ At(Stream, pq[1]) = LBRACKET
        /\ \A n \in ScanFrom(k, pq[2])..(pq[1] - 1) : At(Stream, n) # LBRACKET}

\* the pairs of a set in left-to-right order
RECURSIVE InOrder(_)
InOrder(pairs) ==
    IF pairs = {} THEN <<>>
    ELSE LET first == CHOOSE pq \in pairs : \A o \in pairs : pq[2] <= o[2]
         IN  <<first>> \o InOrder(pairs \ {first})

\* C15: with allowed_tags empty, every call reports exactly the '[...]' pairs its
\* scanner finds, by their trimmed inner text and in order; no character of a pair is
\* emitted, the text between the previous "]" (or the buffer's start) and the "[" is
\* emitted by that call, and last_tag is the last tag reported.
C15_PermissiveEveryPairIsTag ==
    (IsStream /\ allowed_set = {}) =>
        /\ \A k \in 1..Len(calls) :
              LET pairs == InOrder(ScannerPairs(k))
                  pos == {calls[k].pos[n] : n \in 1..Len(calls[k].pos)}
              IN  /\ calls[k].tags = [n \in 1..Len(pairs) |-> NameOf(pairs[n])]
                  /\ \A n \in 1..Len(pairs) :
                        /\ ReturnedPos \cap (pairs[n][1]..pairs[n][2]) = {}
                        /\ ScanFrom(k, pairs[n][2])..(pairs[n][1] - 1) \subseteq pos
        /\ TagsFound # <<>> => last_tag = LastReported

\* C15 witness: the parser ChatStreamer builds (no allowed tags, filtering on) got the
\* single fragment "x[H]" and returned "x" with the tag "H".
C15_Witness ==
    /\ IsStream /\ allowed_set = {} /\ strip_non_english
    /\ Len(calls) = 1
    /\ calls[1].chunk = <<120, LBRACKET, 72, RBRACKET>>
    /\ calls[1].text = <<120>>
    /\ calls[1].tags = <<TagH>>
    /\ last_tag = TagH

(***************************************************************************)
(* C16                                                                     *)
(***************************************************************************)
\* an EmotionTagParser built with the allowed set of this instance and fed the first
\* k logged fragments: its fields and what the k-th call returned
RECURSIVE EmotionRun(_)
EmotionRun(k) ==
    IF k = 0
    THEN [carry |-> <<>>, last_emotion |-> DefaultEmotion, text |-> <<>>, tags |-> <<>>]
    ELSE LET prev == EmotionRun(k - 1)
             r == EmotionProcessChunk([allowed_set |-> allowed_set,
                                       carry |-> prev.carry,
                                       last_emotion |-> prev.last_emotion],
                                      calls[k].chunk)
         IN  [carry |-> r.carry, last_emotion |-> r.last_emotion,
              text |-> r.text, tags |-> r.tags]

\* StreamTextParser has returned what the EmotionTagParser returns: text and tags of
\* every call, and the text of the first finish()
SameAsEmotionRun ==
    /\ \A k \in 1..Len(calls) :
          /\ calls[k].text = EmotionRun(k).text
          /\ calls[k].tags = EmotionRun(k).tags
    /\ JustFinished =>
          ret.text = EmotionFinish([allowed_set |-> allowed_set,
                                    carry |-> EmotionRun(Len(calls)).carry,
                                    last_emotion |-> EmotionRun(Len(calls)).last_emotion]).text

\* C16 as stated: with filtering disabled, StreamTextParser returns for every fragment
\* sequence the clean text and tags per call and the finish() text that an
\* EmotionTagParser with the same allowed set returns.
C16_SameAsEmotionParser ==
    (IsStream /\ ~strip_non_english) => SameAsEmotionRun

\* every complete span of the input has an allowed name and does not follow an
\* unclosed "[", and no call recognised a bare leading tag
OnlyAllowedSpansNoBareTag ==
    /\ \A pq \in Spans : IsFirstOpen(pq) /\ NameOf(pq) \in allowed_set
    /\ \A k \in 1..Len(calls) : ~calls[k].bare

\* C16: with filtering disabled, StreamTextParser returns the clean text and tags per
\* call and the finish() text that an EmotionTagParser with the same allowed set
\* returns, for every fragment sequence in which every complete span has an allowed
\* name and does not follow an unclosed "[", and no bare leading tag is recognised.
C16_SameAsEmotionParserOnAllowedSpans ==
    (IsStream /\ ~strip_non_english /\ OnlyAllowedSpansNoBareTag) => SameAsEmotionRun

\* C16 witness: with allowed {H} and no filtering the input "[H][" came in two
\* fragments; the tag was reported once and finish() returned the "[".
C16_Witness ==
    /\ IsStream /\ ~strip_non_english /\ allowed_set = {TagH}
    /\ JustFinished
    /\ Len(calls) = 2
    /\ Input = <<LBRACKET, 72, RBRACKET, LBRACKET>>
    /\ TagsFound = <<TagH>>
    /\ ret.text = <<LBRACKET>>
    /\ OnlyAllowedSpansNoBareTag

(***************************************************************************)
(* C17                                                                     *)
(***************************************************************************)
\* the logged calls whose returned clean text holds a non-whitespace character
NonSpaceCalls ==
    {k \in 1..Len(calls) : \E n \in 1..Len(calls[k].text) : ~IsSpace(calls[k].text[n])}

\* C17: in every state of a StreamTextParser the has-emitted-non-whitespace flag is
\* true exactly when some process_chunk call so far returned clean text with a
\* non-whitespace character (so it is set by the first such call and never cleared),
\* and no call after such a call recognised a bare leading tag.
C17_FlagMonotoneGatesBareTag ==
    IsStream =>
        /\ has_output_non_ws = (NonSpaceCalls # {})
        /\ \A k \in 1..Len(calls) :
              calls[k].bare => \A j \in NonSpaceCalls : k <= j

\* C17 witness: with allowed {H}, a call recognised a bare leading tag, a later call
\* returned non-whitespace text, and after it the fragment "H" came back as text.
C17_Witness ==
    /\ IsStream /\ allowed_set = {TagH}
    /\ Len(calls) = 3
    /\ calls[1].bare
    /\ 2 \in NonSpaceCalls
    /\ calls[3].chunk = TagH
    /\ ~calls[3].bare
    /\ calls[3].text = TagH
    /\ has_output_non_ws

(***************************************************************************)
(* C18                                                                     *)
(***************************************************************************)
\* the working buffer of logged call k: the carry followed by the filtered fragment
Buffer(k) == Slice(Stream, calls[k].base, StreamLenAfter(k))

\* the number of whitespace characters of text from index j on, up to the first
\* character that is not whitespace
SpaceRun(text, j) ==
    Min({n \in j..Len(text) : n = Len(text) \/ ~IsSpace(At(text, n))}) - j

\* the name t stands at index j of text and is followed by whitespace, one of
\* . , ! ? : ; or the end of text
FitsAt(text, j, t) ==
    /\ j + Len(t) <= Len(text)
    /\ Slice(text, j, j + Len(t)) = t
    /\ \/ j + Len(t) = Len(text)
       \/ IsSpace(At(text, j + Len(t)))
       \/ At(text, j + Len(t)) \in {46, 44, 33, 63, 58, 59}

\* C18: a call whose detector is on (non-empty allowed set, no non-whitespace text
\* returned by an earlier call) recognises a bare leading tag exactly when, after the
\* leading whitespace of its working buffer, some allowed name stands followed by a
\* delimiter or the end; the tag reported first is then the longest such name, and
\* neither the name nor the whitespace right after it is ever returned as text.
C18_BareTagLongestMatch ==
    IsStream =>
        \A k \in 1..Len(calls) :
            LET buf == Buffer(k)
                j == SpaceRun(buf, 0)
                fits == {t \in allowed_set : FitsAt(buf, j, t)}
                on == \A n \in NonSpaceCalls : k <= n
            IN  /\ calls[k].bare = (on /\ fits # {})
                /\ calls[k].bare =>
                      LET t == calls[k].tags[1]
                          end == j + Len(t) + SpaceRun(buf, j + Len(t))
                      IN  /\ t \in fits
                          /\ \A u \in fits : Len(u) <= Len(t)
                          /\ ReturnedPos \cap
                               ((calls[k].base + j)..(calls[k].base + end - 1)) = {}

\* C18 witness: with allowed {H, Hx, H.} the first fragment "H. x" reported the bare
\* tag "H.", not its prefix "H" (which "." follows), and returned "x".
C18_Witness ==
    /\ IsStream /\ allowed_set = {TagH, TagHx, TagHDot}
    /\ Len(calls) = 1
    /\ calls[1].chunk = <<72, 46, 32, 120>>
    /\ calls[1].bare
    /\ calls[1].tags = <<TagHDot>>
    /\ calls[1].text = <<120>>

(***************************************************************************)
(* C19                                                                     *)
(***************************************************************************)
\* C19: in every step of either parser, a process_chunk call that returns an empty
\* tags_found and every finish() leave last_tag unchanged, and a process_chunk call
\* that returns a non-empty tags_found leaves last_tag equal to its last element.
C19_LastTagChangesOnRecognition ==
    [][/\ (ret'.op = "process_chunk" /\ ret'.tags = <<>>) => last_tag' = last_tag
       /\ (ret'.op = "process_chunk" /\ ret'.tags # <<>>) =>
              last_tag' = ret'.tags[Len(ret'.tags)]
       /\ ret'.op = "finish" => last_tag' = last_tag]_vars

\* C19 witness: two calls each reported a tag, "H." and then "H"; finish() returned
\* the second and last_tag still holds it.
C19_Witness ==
    /\ ret.op = "finish"
    /\ Len(calls) = 2
    /\ calls[1].tags = <<TagHDot>>
    /\ calls[2].tags = <<TagH>>
    /\ ret.tag = TagH
    /\ last_tag = TagH

(***************************************************************************)
(* C20                                                                     *)
(***************************************************************************)
\* the pairs the scanner of call k finds and recognises as tags, left to right
RecognisedPairs(k) ==
    InOrder({pq \in ScannerPairs(k) : allowed_set = {} \/ NameOf(pq) \in allowed_set})

\* C20: in every process_chunk call the tags reported from brackets are the names of
\* the recognised pairs in the left-to-right order of their positions in the working
\* buffer, and a bare leading tag comes first in tags_found: it stands in the buffer
\* before every recognised pair.
C20_TagsInBufferOrder ==
    IsStream =>
        \A k \in 1..Len(calls) :
            LET rec == RecognisedPairs(k)
                j == SpaceRun(Buffer(k), 0)
            IN  /\ BracketTags(k) = [n \in 1..Len(rec) |-> NameOf(rec[n])]
                /\ calls[k].bare =>
                      /\ FitsAt(Buffer(k), j, calls[k].tags[1])
                      /\ \A n \in 1..Len(rec) :
                            calls[k].base + j + Len(calls[k].tags[1]) <= rec[n][1]

\* C20 witness: with allowed {H, x} the single fragment "H [x]" reported the bare tag
\* "H" and then the bracketed tag "x".
C20_Witness ==
    /\ IsStream /\ allowed_set = {TagH, TagX}
    /\ Len(calls) = 1
    /\ calls[1].chunk = <<72, 32, LBRACKET, 120, RBRACKET>>
    /\ calls[1].bare
    /\ calls[1].tags = <<TagH, TagX>>
    /\ calls[1].text = <<>>

(***************************************************************************)
(* C22                                                                     *)
(***************************************************************************)
\* the text holds a "[" and, somewhere after it, a "]"
HasBracketPair(text) ==
    \E n \in 1..Len(text) : \E m \in (n + 1)..Len(text) :
        text[n] = LBRACKET /\ text[m] = RBRACKET

\* C22: no clean_text returned by one StreamTextParser.process_chunk call holds a "["
\* followed anywhere later by a "]", in any mode and for any fragment sequence.
C22_NoBracketPairInOneOutput ==
    IsStream => \A k \in 1..Len(calls) : ~HasBracketPair(calls[k].text)

\* C22 witness: in permissive mode the single fragment "][][" returned the stray "]"
\* alone: the pair "[]" was scanned as a tag and the last "[" is withheld.
C22_Witness ==
    /\ IsStream /\ allowed_set = {}
    /\ Len(calls) = 1
    /\ calls[1].chunk = <<RBRACKET, LBRACKET, RBRACKET, LBRACKET>>
    /\ calls[1].text = <<RBRACKET>>
    /\ carry = <<LBRACKET>>

(***************************************************************************)
(* C23                                                                     *)
(***************************************************************************)
\* C23: when the first finish() of an EmotionTagParser has returned and no
\* process_chunk call reported an emotion, the clean texts of all calls followed by
\* the text of finish() are the input fragments, character for character.
C23_EmotionParserLosesNoText ==
    (kind = "EmotionTagParser" /\ JustFinished /\ TagsFound = <<>>) =>
        Emitted \o ret.text = Input

\* C23 witness: the input "[x][" came in several fragments; the span "[x]", no allowed
\* emotion, was returned as text and finish() returned the "[".
C23_Witness ==
    /\ kind = "EmotionTagParser"
    /\ JustFinished
    /\ Len(calls) >= 2
    /\ TagsFound = <<>>
    /\ Input = <<LBRACKET, 120, RBRACKET, LBRACKET>>
    /\ Emitted = <<LBRACKET, 120, RBRACKET>>
    /\ ret.text = <<LBRACKET>>

(***************************************************************************)
(* ChatStreamer.stream (chat_streamer.py): calls of the async generator,   *)
(* which run interleaved, one step per token of their transport.           *)
(***************************************************************************)
\* number of ChatStreamer.stream calls
ChatCalls == 2
\* total number of characters the transports deliver to all calls
MaxChatLen == 4

\* U+2600, a character of the range "\U00002600-\U000026FF" of _emoji_pattern
SUN == 9728

\* _emoji_pattern: the character classes of the pattern
IsEmoji(c) ==
    \/ c \in 128512..128591 \/ c \in 127744..128511 \/ c \in 128640..128767
    \/ c \in 127462..127487 \/ c \in 9984..10175 \/ c \in 129280..129535
    \/ c \in 9728..9983 \/ c \in 11008..11263 \/ c \in 8960..9215

\* _remove_emojis: every run of emoji characters is replaced by ""
RemoveEmojis(text) == SelectSeq(text, LAMBDA c : ~IsEmoji(c))

\* the characters of the tokens a transport delivers:  U+2600  '['  ']'  'x'
ChatChars == {SUN, LBRACKET, RBRACKET, 120}

\* every character delivered so far, over all calls
ChatDelivered ==
    LET RECURSIVE Sum(_)
        Sum(c) == IF c = 0 THEN 0
                  ELSE Len(Concat(chat[c].raw_tokens)) + Sum(c - 1)
    IN  Sum(ChatCalls)

\* the tokens a transport can deliver next: LLMTransport.stream yields no empty token
ChatTokens ==
    UNION {[1..k -> ChatChars] : k \in 1..(MaxChatLen - ChatDelivered)}

\* StreamTextParser(allowed_tags=None, strip_non_english=True)
NewChatParser ==
    [allowed_set |-> {}, strip_non_english |-> TRUE, carry |-> <<>>, last_tag |-> None,
     has_output_text |-> FALSE, has_output_non_ws |-> FALSE]

\* one parser kept on the ChatStreamer instead of one per call
ParserOfShared(c) == 1

\* "parser = StreamTextParser(...)" is a local of the call: the frame that holds the
\* parser that call c uses
ParserOf(c) == c

InitChat ==
    /\ \E provider \in {"ollama", "other"} :
          chat = [c \in 1..ChatCalls |->
                     [pc |-> "new", provider |-> provider, parser |-> NewChatParser,
                      raw_tokens |-> <<>>, outputs |-> <<>>, events |-> <<>>,
                      tail_text |-> None]]
    /\ kind = "none" /\ allowed_set = {} /\ strip_non_english = FALSE
    /\ carry = <<>> /\ last_tag = None
    /\ has_output_text = FALSE /\ has_output_non_ws = FALSE
    /\ calls = <<>> /\ finish_count = 0
    /\ ret = [op |-> "init", chunk |-> <<>>, text |-> <<>>, tags |-> <<>>, tag |-> None,
              raised |-> FALSE]
    /\ NoLLM /\ NoWs /\ NoFmt

\* stream(), up to the loop: the provider check and the creation of the parser
stream_start(c) ==
    /\ chat[c].pc = "new"
    /\ IF chat[c].provider # "ollama"
       THEN chat' = [chat EXCEPT ![c].pc = "raised"]
       ELSE chat' = [chat EXCEPT ![c].pc = "streaming",
                                 ![ParserOf(c)].parser = NewChatParser]
    /\ UNCHANGED <<parser_vars, llm, ws, fmt>>

\* one turn of "async for raw_token in self._stream_core(final_prompt)"
stream_token(c, raw_token) ==
    /\ chat[c].pc = "streaming"
    /\ LET token == RemoveEmojis(raw_token)
           r == ProcessChunk(chat[ParserOf(c)].parser, token)
           parser == [allowed_set |-> {}, strip_non_english |-> TRUE,
                      carry |-> r.carry, last_tag |-> r.last_tag,
                      has_output_text |-> r.has_output_text,
                      has_output_non_ws |-> r.has_output_non_ws]
           received == [chat EXCEPT ![c].raw_tokens = Append(@, raw_token)]
       IN  IF token = <<>>
           THEN chat' = received
           ELSE chat' = [received EXCEPT
                            ![ParserOf(c)].parser = parser,
                            ![c].outputs = Append(@, [token |-> token, text_out |-> r.text]),
                            ![c].events = IF r.text # <<>>
                                          THEN Append(@, [type |-> "text", data |-> r.text])
                                          ELSE @]
    /\ UNCHANGED <<parser_vars, llm, ws, fmt>>

\* the end of the stream without "if tail_text": the residual is yielded even when it
\* is empty
stream_end_yields_always(c) ==
    /\ chat[c].pc = "streaming"
    /\ LET r == Finish(chat[ParserOf(c)].parser)
       IN  chat' = [chat EXCEPT
                       ![ParserOf(c)].parser.carry = r.carry,
                       ![c].tail_text = r.text,
                       ![c].events = Append(@, [type |-> "text", data |-> r.text]),
                       ![c].pc = "done"]
    /\ UNCHANGED <<parser_vars, llm, ws, fmt>>

\* the end of the transport's tokens: finish() and the last event
stream_end(c) ==
    /\ chat[c].pc = "streaming"
    /\ LET r == Finish(chat[ParserOf(c)].parser)
       IN  chat' = [chat EXCEPT
                       ![ParserOf(c)].parser.carry = r.carry,
                       ![c].tail_text = r.text,
                       ![c].events = IF r.text # <<>>
                                     THEN Append(@, [type |-> "text", data |-> r.text])
                                     ELSE @,
                       ![c].pc = "done"]
    /\ UNCHANGED <<parser_vars, llm, ws, fmt>>

NextChat ==
    \/ \E c \in 1..ChatCalls : stream_start(c)
    \/ \E c \in 1..ChatCalls : \E raw_token \in ChatTokens : stream_token(c, raw_token)
    \/ \E c \in 1..ChatCalls : stream_end(c)

SpecChat == InitChat /\ [][NextChat]_vars

(***************************************************************************)
(* C21                                                                     *)
(***************************************************************************)
\* ChatStreamer.stream run alone on the raw tokens toks, up to the end of the loop:
\* the parser it holds and the events it has yielded
RECURSIVE AloneRun(_)
AloneRun(toks) ==
    IF toks = <<>> THEN [parser |-> NewChatParser, events |-> <<>>]
    ELSE LET prev == AloneRun(SubSeq(toks, 1, Len(toks) - 1))
             token == RemoveEmojis(toks[Len(toks)])
             r == ProcessChunk(prev.parser, token)
         IN  IF token = <<>> THEN prev
             ELSE [parser |-> [prev.parser EXCEPT
                                  !.carry = r.carry, !.last_tag = r.last_tag,
                                  !.has_output_text = r.has_output_text,
                                  !.has_output_non_ws = r.has_output_non_ws],
                   events |-> IF r.text # <<>>
                              THEN Append(prev.events, [type |-> "text", data |-> r.text])
                              ELSE prev.events]

\* the events of the whole response when the transport ends after the tokens toks
AloneEvents(toks) ==
    LET run == AloneRun(toks)
    IN  IF run.parser.carry # <<>>
        THEN Append(run.events, [type |-> "text", data |-> run.parser.carry])
        ELSE run.events

\* C21: under every interleaving of ChatStreamer.stream calls, the events a call has
\* yielded are those the same call yields when it runs alone on its own tokens, and
\* while it runs its parser holds the carry, last_tag and flags of that run alone.
C21_StreamsIsolated ==
    \A c \in DOMAIN chat :
        /\ chat[c].pc = "streaming" =>
              /\ chat[c].events = AloneRun(chat[c].raw_tokens).events
              /\ chat[c].parser = AloneRun(chat[c].raw_tokens).parser
        /\ chat[c].pc = "done" => chat[c].events = AloneEvents(chat[c].raw_tokens)

\* C21 witness: two calls are in their loops at once; the first has received "[" and
\* holds it as carry, the second has received "x" and "]" and yielded both.
C21_Witness ==
    /\ DOMAIN chat = 1..ChatCalls
    /\ chat[1].pc = "streaming" /\ chat[2].pc = "streaming"
    /\ chat[1].raw_tokens = << <<LBRACKET>> >>
    /\ chat[1].parser.carry = <<LBRACKET>>
    /\ chat[1].events = <<>>
    /\ chat[2].raw_tokens = << <<120>>, <<RBRACKET>> >>
    /\ chat[2].events = <<[type |-> "text", data |-> <<120>>],
                          [type |-> "text", data |-> <<RBRACKET>>]>>

(***************************************************************************)
(* C25                                                                     *)
(***************************************************************************)
\* the texts of a sequence of texts that are not empty, in order
RECURSIVE NonEmpty(_)
NonEmpty(texts) ==
    IF texts = <<>> THEN <<>>
    ELSE (IF Head(texts) # <<>> THEN <<Head(texts)>> ELSE <<>>) \o NonEmpty(Tail(texts))

\* C25: every event a ChatStreamer.stream call has yielded is a text event with
\* non-empty data; process_chunk was called on the raw tokens with their emoji
\* characters removed, those left empty skipped; the event data are the non-empty
\* clean texts of these calls in order, followed, once the call is done, by the text
\* of finish() when it is not empty.
C25_EventsAreCleanTextsInOrder ==
    \A c \in DOMAIN chat :
        chat[c].pc \in {"streaming", "done"} =>
            LET f == chat[c]
                stripped == [n \in 1..Len(f.raw_tokens) |->
                                SelectSeq(f.raw_tokens[n], LAMBDA ch : ~IsEmoji(ch))]
                residual == IF f.pc = "done" /\ f.tail_text # <<>>
                            THEN <<f.tail_text>> ELSE <<>>
            IN  /\ \A n \in 1..Len(f.events) :
                      f.events[n].type = "text" /\ f.events[n].data # <<>>
                /\ [n \in 1..Len(f.outputs) |-> f.outputs[n].token] = NonEmpty(stripped)
                /\ [n \in 1..Len(f.events) |-> f.events[n].data] =
                      NonEmpty([n \in 1..Len(f.outputs) |-> f.outputs[n].text_out])
                         \o residual

\* C25 witness: a call received "x", an emoji alone and "["; it yielded "x" for the
\* first token, skipped the second, got no text for the third and yielded the
\* residual "[" last.
C25_Witness ==
    /\ DOMAIN chat = 1..ChatCalls
    /\ chat[1].pc = "done"
    /\ chat[1].raw_tokens = << <<120>>, <<SUN>>, <<LBRACKET>> >>
    /\ Len(chat[1].outputs) = 2
    /\ chat[1].outputs[2].text_out = <<>>
    /\ chat[1].tail_text = <<LBRACKET>>
    /\ chat[1].events = <<[type |-> "text", data |-> <<120>>],
                          [type |-> "text", data |-> <<LBRACKET>>]>>

(***************************************************************************)
(* LLMClient.stream (llm_client.py): one call of the async generator.      *)
(***************************************************************************)
\* number of tokens the transport delivers to the call
MaxTokens == 4

\* "len(prefix_buffer) > 64"
PREFIX_LIMIT == 64
\* "{1,32}" in the pattern of the opening tag
NAME_LIMIT == 32
\* "\n" in '"\n" in prefix_buffer'
NEWLINE == 10

\* the names "Happy" and "Neutral" of LLMClient.__init__
Happy == <<72, 97, 112, 112, 121>>
Neutral == <<78, 101, 117, 116, 114, 97, 108>>

\* n times the character c
Repeat(c, n) == [k \in 1..n |-> c]

\* the raw tokens of the model:  "["  "]"  "x"  "y"  " "  "\n"  U+2600  "[x] y",
\* a name one character over the limit, and a text one character over the buffer limit
LLMTokens ==
    {<<LBRACKET>>, <<RBRACKET>>, <<120>>, <<121>>, <<32>>, <<NEWLINE>>, <<SUN>>,
     <<LBRACKET, 120, RBRACKET, 32, 121>>,
     Repeat(120, NAME_LIMIT + 1), Repeat(121, PREFIX_LIMIT + 1)}

\* LLMClient.__init__: self.allowed_emotions
AllowedEmotions(allowed_emotions) ==
    SelectSeq(allowed_emotions, LAMBDA e : Strip(e) # <<>>)

\* LLMClient.__init__: self.default_emotion
DefaultEmotionOf(allowed_emotions, default_emotion) ==
    LET kept == AllowedEmotions(allowed_emotions)
        allowed == {kept[n] : n \in 1..Len(kept)}
    IN  IF default_emotion # None /\ default_emotion # <<>> /\ default_emotion \in allowed
        THEN default_emotion
        ELSE IF Happy \in allowed THEN Happy
        ELSE IF kept # <<>> THEN kept[1]
        ELSE Neutral

\* re.match(r"^\s*\[([^\[\]]{1,32})\]\s*", prefix_buffer): whether it matches, the
\* group and m.end()
OpeningTagMatch(prefix_buffer) ==
    LET j == SkipSpace(prefix_buffer, 0)
        close_idx == Find(prefix_buffer, RBRACKET, j + 1)
        inner == Slice(prefix_buffer, j + 1, close_idx)
    IN  IF /\ j < Len(prefix_buffer)
           /\ At(prefix_buffer, j) = LBRACKET
           /\ close_idx # -1
           /\ Find(inner, LBRACKET, 0) = -1
           /\ Len(inner) >= 1 /\ Len(inner) <= NAME_LIMIT
        THEN [matched |-> TRUE, group |-> inner,
              end |-> SkipSpace(prefix_buffer, close_idx + 1)]
        ELSE [matched |-> FALSE, group |-> <<>>, end |-> 0]

\* the body of the loop for one raw token: the new locals and the events yielded
LLMToken(self, raw_token) ==
    LET token == RemoveEmojis(raw_token)
        prefix_buffer == self.prefix_buffer \o token
        allowed_set_ == {self.allowed_emotions[n] : n \in 1..Len(self.allowed_emotions)}
        m == OpeningTagMatch(prefix_buffer)
        candidate == Strip(m.group)
        used_emotion == IF m.matched /\ candidate \in allowed_set_ THEN candidate
                        ELSE self.default_emotion
        remainder == IF m.matched THEN Slice(prefix_buffer, m.end, Len(prefix_buffer))
                     ELSE Slice(prefix_buffer, SkipSpace(prefix_buffer, 0),
                                Len(prefix_buffer))
    IN  IF ~self.emotion_emitted
        THEN IF \/ Find(prefix_buffer, RBRACKET, 0) # -1
                \/ Find(prefix_buffer, NEWLINE, 0) # -1
                \/ Len(prefix_buffer) > PREFIX_LIMIT
             THEN [emotion_emitted |-> TRUE, prefix_buffer |-> <<>>,
                   yielded |-> <<[type |-> "emotion", emotion |-> used_emotion]>> \o
                               (IF remainder # <<>>
                                THEN <<[type |-> "text", data |-> remainder]>> ELSE <<>>)]
             ELSE [emotion_emitted |-> FALSE, prefix_buffer |-> prefix_buffer,
                   yielded |-> <<>>]
        ELSE [emotion_emitted |-> TRUE, prefix_buffer |-> self.prefix_buffer,
              yielded |-> IF token # <<>> THEN <<[type |-> "text", data |-> token]>>
                          ELSE <<>>]

\* the end of the stream without its "if not emotion_emitted" block
LLMEndNoDefault(self) == <<>>

\* after the loop: the events yielded when the stream ended before the emotion
LLMEnd(self) ==
    IF ~self.emotion_emitted
    THEN <<[type |-> "emotion", emotion |-> self.default_emotion]>> \o
         (IF Strip(self.prefix_buffer) # <<>>
          THEN <<[type |-> "text", data |-> RemoveEmojis(self.prefix_buffer)]>>
          ELSE <<>>)
    ELSE <<>>

\* the constructor arguments of the model: allowed_emotions and default_emotion
LLMConfigs ==
    {[allowed_emotions |-> <<TagH, TagX>>, default_emotion |-> None],
     [allowed_emotions |-> <<TagX, Happy>>, default_emotion |-> None],
     [allowed_emotions |-> <<TagX, TagH>>, default_emotion |-> TagH],
     [allowed_emotions |-> << <<32>> >>, default_emotion |-> TagX]}

InitLLM ==
    /\ \E cfg \in LLMConfigs : \E provider \in {"ollama", "other"} :
          llm = [pc |-> "new", provider |-> provider,
                 allowed_emotions |-> AllowedEmotions(cfg.allowed_emotions),
                 default_emotion |-> DefaultEmotionOf(cfg.allowed_emotions,
                                                      cfg.default_emotion),
                 emotion_emitted |-> FALSE, prefix_buffer |-> <<>>,
                 raw_tokens |-> <<>>, events |-> <<>>]
    /\ kind = "none" /\ allowed_set = {} /\ strip_non_english = FALSE
    /\ carry = <<>> /\ last_tag = None
    /\ has_output_text = FALSE /\ has_output_non_ws = FALSE
    /\ calls = <<>> /\ finish_count = 0
    /\ ret = [op |-> "init", chunk |-> <<>>, text |-> <<>>, tags |-> <<>>, tag |-> None,
              raised |-> FALSE]
    /\ NoChat /\ NoWs /\ NoFmt

\* LLMClient.stream, up to the loop
llm_stream_start ==
    /\ llm.pc = "new"
    /\ llm' = [llm EXCEPT !.pc = IF llm.provider # "ollama" THEN "raised"
                                 ELSE "streaming"]
    /\ UNCHANGED <<parser_vars, chat, ws, fmt>>

\* one turn of "async for raw_token in self._stream_ollama(final_prompt)"
llm_stream_token(raw_token) ==
    /\ llm.pc = "streaming"
    /\ Len(llm.raw_tokens) < MaxTokens
    /\ LET r == LLMToken(llm, raw_token)
       IN  llm' = [llm EXCEPT !.emotion_emitted = r.emotion_emitted,
                              !.prefix_buffer = r.prefix_buffer,
                              !.raw_tokens = Append(@, raw_token),
                              !.events = @ \o r.yielded]
    /\ UNCHANGED <<parser_vars, chat, ws, fmt>>

\* the end of the transport's tokens
llm_stream_end ==
    /\ llm.pc = "streaming"
    /\ llm' = [llm EXCEPT !.events = @ \o LLMEnd(llm), !.pc = "done"]
    /\ UNCHANGED <<parser_vars, chat, ws, fmt>>

\* _stream_ollama raises (no connection, raise_for_status): the call ends with the
\* exception and yields nothing more
llm_stream_raises ==
    /\ llm.pc = "streaming"
    /\ llm' = [llm EXCEPT !.pc = "raised"]
    /\ UNCHANGED <<parser_vars, chat, ws, fmt>>

NextLLM ==
    \/ llm_stream_start
    \/ \E raw_token \in LLMTokens : llm_stream_token(raw_token)
    \/ llm_stream_end
    \/ llm_stream_raises

SpecLLM == InitLLM /\ [][NextLLM]_vars

(***************************************************************************)
(* C24                                                                     *)
(***************************************************************************)
\* the places of the emotion events among the events yielded
EmotionEvents == {n \in 1..Len(llm.events) : llm.events[n].type = "emotion"}

\* C24: an LLMClient.stream call never yields a second emotion event nor a text
\* event before the emotion event; the emotion is an allowed emotion or the default
\* emotion; and when the call is done, whatever the tokens were, it has yielded
\* exactly one emotion event.
C24_OneEmotionEventFirst ==
    llm.pc \in {"streaming", "done"} =>
        /\ Cardinality(EmotionEvents) <= 1
        /\ llm.events # <<>> => llm.events[1].type = "emotion"
        /\ \A n \in EmotionEvents :
              \/ llm.events[n].emotion = llm.default_emotion
              \/ \E k \in 1..Len(llm.allowed_emotions) :
                    llm.events[n].emotion = llm.allowed_emotions[k]
        /\ llm.pc = "done" => Cardinality(EmotionEvents) = 1
        /\ llm.pc = "streaming" => llm.emotion_emitted = (EmotionEvents # {})

\* C24 witness: the tokens held neither "]" nor a newline and stayed under the buffer
\* limit; the call is done and yielded the default emotion and then the buffered text.
C24_Witness ==
    /\ llm.pc = "done"
    /\ llm.raw_tokens = << <<LBRACKET>>, <<120>>, <<SUN>> >>
    /\ llm.default_emotion = Happy
    /\ llm.events = <<[type |-> "emotion", emotion |-> Happy],
                      [type |-> "text", data |-> <<LBRACKET, 120>>]>>

(***************************************************************************)
(* ws_chat (server.py): one WebSocket connection.  A message received is   *)
(* a JSON object with the keys "prompt" and "message" (None when the key   *)
(* is missing) or a text that is not JSON.  llm.stream is represented by   *)
(* the events it yields (text events with non-empty data) and by the       *)
(* exception its transport can raise; classify_emotion_llm by the value it *)
(* returns (one of the allowed emotions) or by its exception.              *)
(***************************************************************************)
\* number of messages the connection receives
MaxPrompts == 2
\* number of events one llm.stream call yields
MaxEvents == 2

\* the texts of the model:  ""  " "  "x"
WsTexts == {<<>>, <<32>>, <<120>>}

\* the messages of the model
WsMessages ==
    [json : {TRUE}, prompt : WsTexts \cup {None}, message : WsTexts \cup {None},
     text : {<<>>}]
    \cup [json : {FALSE}, prompt : {None}, message : {None}, text : WsTexts]

\* Python truth of an optional text
Truthy(v) == v # None /\ v # <<>>

\* user_text of a received message
UserText(msg) ==
    IF msg.json
    THEN IF Truthy(msg.prompt) THEN msg.prompt
         ELSE IF Truthy(msg.message) THEN msg.message
         ELSE <<>>
    ELSE msg.text

\* "".join(assistant_accum)
JoinTexts(texts) == Concat(texts)

\* the values classify_emotion_llm can return for the allowed emotions
ClassifyResults(allowed) ==
    LET allowed_clean == SelectSeq(allowed, LAMBDA e : Strip(e) # <<>>)
    IN  IF allowed_clean = <<>> THEN {Neutral}
        ELSE {allowed_clean[n] : n \in 1..Len(allowed_clean)}

InitWs ==
    /\ \E provider \in {"ollama", "other"} :
          ws = [pc |-> "receive", provider |-> provider,
                allowed_emotions |-> <<TagH, TagX>>,
                history |-> <<>>, user_text |-> <<>>,
                accum_bound |-> FALSE, assistant_accum |-> <<>>,
                turns |-> <<>>]
    /\ kind = "none" /\ allowed_set = {} /\ strip_non_english = FALSE
    /\ carry = <<>> /\ last_tag = None
    /\ has_output_text = FALSE /\ has_output_non_ws = FALSE
    /\ calls = <<>> /\ finish_count = 0
    /\ ret = [op |-> "init", chunk |-> <<>>, text |-> <<>>, tags |-> <<>>, tag |-> None,
              raised |-> FALSE]
    /\ NoChat /\ NoLLM /\ NoFmt

\* websocket.send_text inside the handling of the current message
WsSend(turns, types) ==
    [turns EXCEPT ![Len(turns)].sent = @ \o types]

\* "await websocket.receive_text()" returns a message: up to the start of llm.stream
ws_receive(msg) ==
    /\ ws.pc = "receive"
    /\ Len(ws.turns) < MaxPrompts
    /\ LET user_text == UserText(msg)
           turn == [user_text |-> user_text, before |-> ws.history, sent |-> <<>>]
           turns == Append(ws.turns, turn)
       IN  IF Strip(user_text) = <<>>
           THEN ws' = [ws EXCEPT !.turns = WsSend(turns, <<"error">>),
                                 !.user_text = user_text]
           ELSE IF ws.provider = "ollama"
           THEN ws' = [ws EXCEPT !.turns = WsSend(turns, <<"start">>),
                                 !.user_text = user_text,
                                 !.history = Append(@, [role |-> "user",
                                                        content |-> user_text]),
                                 !.accum_bound = TRUE,
                                 !.assistant_accum = <<>>,
                                 !.pc = "streaming"]
           ELSE ws' = [ws EXCEPT !.turns = WsSend(turns, <<"start", "error">>),
                                 !.user_text = user_text,
                                 !.pc = "classify"]
    /\ UNCHANGED <<parser_vars, chat, llm, fmt>>

\* "await websocket.receive_text()" raises WebSocketDisconnect
ws_disconnect ==
    /\ ws.pc = "receive"
    /\ ws' = [ws EXCEPT !.pc = "closed"]
    /\ UNCHANGED <<parser_vars, chat, llm, fmt>>

\* one turn of "async for event in llm.stream(...)" with a text event
ws_event(data) ==
    /\ ws.pc = "streaming"
    /\ Len(ws.assistant_accum) < MaxEvents
    /\ IF data # <<>>
       THEN ws' = [ws EXCEPT !.assistant_accum = Append(@, data),
                             !.turns = WsSend(@, <<"chunk">>)]
       ELSE ws' = ws
    /\ UNCHANGED <<parser_vars, chat, llm, fmt>>

\* llm.stream raises (its transport fails): the exception leaves the loop
\* "while True" and reaches "except Exception as e"
ws_stream_raises ==
    /\ ws.pc = "streaming"
    /\ ws' = [ws EXCEPT !.turns = WsSend(@, <<"error">>), !.pc = "closed"]
    /\ UNCHANGED <<parser_vars, chat, llm, fmt>>

\* llm.stream is exhausted
ws_stream_end ==
    /\ ws.pc = "streaming"
    /\ ws' = [ws EXCEPT !.pc = "classify"]
    /\ UNCHANGED <<parser_vars, chat, llm, fmt>>

\* from "# Post-process" to the end of the loop body; emotion is the value
\* classify_emotion_llm returns, None when it raises
ws_classify ==
    /\ ws.pc = "classify"
    /\ \E emotion \in ClassifyResults(ws.allowed_emotions) \cup {None} :
       LET assistant_text == JoinTexts(ws.assistant_accum)
           sends_emotion == ws.accum_bound /\ Truthy(emotion)
           stores == ws.accum_bound /\ Strip(assistant_text) # <<>>
       IN  ws' = [ws EXCEPT
                    !.turns = WsSend(@, (IF sends_emotion THEN <<"emotion">> ELSE <<>>)
                                        \o <<"end">>),
                    !.history = IF stores
                                THEN Append(@, [role |-> "assistant",
                                                content |-> assistant_text])
                                ELSE @,
                    !.pc = "receive"]
    /\ UNCHANGED <<parser_vars, chat, llm, fmt>>

NextWs ==
    \/ \E msg \in WsMessages : ws_receive(msg)
    \/ ws_disconnect
    \/ \E data \in WsTexts \ {<<>>} : ws_event(data)
    \/ ws_stream_raises
    \/ ws_stream_end
    \/ ws_classify

SpecWs == InitWs /\ [][NextWs]_vars

(***************************************************************************)
(* C26                                                                     *)
(***************************************************************************)
\* 'start', chunks, at most one 'emotion', and then 'end' when complete
IsFrame(types, complete) ==
    /\ types # <<>>
    /\ types[1] = "start"
    /\ \E c \in 0..(Len(types) - 1) :
          /\ \A n \in 2..(c + 1) : types[n] = "chunk"
          /\ SubSeq(types, c + 2, Len(types)) \in
                (IF complete THEN {} ELSE {<<>>, <<"emotion">>})
                \cup {<<"end">>, <<"emotion", "end">>}

\* the history as the handling of message k left it
HistoryAfter(k) ==
    IF k < Len(ws.turns) THEN ws.turns[k + 1].before ELSE ws.history

\* the handling of message k is over
Handled(k) == k < Len(ws.turns) \/ ws.pc \in {"receive", "closed"}

\* C26: for every non-blank prompt received the messages sent are 'start', then
\* chunks, then at most one 'emotion', then exactly one 'end', and the frame is
\* complete before the next message is read; a blank prompt gets exactly one
\* 'error' and leaves the history unchanged.
C26_Framing ==
    ws.pc # "none" =>
        \A k \in 1..Len(ws.turns) :
            IF Strip(ws.turns[k].user_text) = <<>>
            THEN /\ ws.turns[k].sent = <<"error">>
                 /\ HistoryAfter(k) = ws.turns[k].before
            ELSE IsFrame(ws.turns[k].sent, Handled(k))

\* the part of C26 about blank prompts
C26_BlankPromptOnlyError ==
    ws.pc # "none" =>
        \A k \in 1..Len(ws.turns) :
            Strip(ws.turns[k].user_text) = <<>> =>
                /\ ws.turns[k].sent = <<"error">>
                /\ HistoryAfter(k) = ws.turns[k].before

\* C26 with a provider that is "ollama" and a stream that does not raise
C26_FramingWhenStreamCompletes ==
    ws.pc # "none" /\ ws.provider = "ollama" =>
        \A k \in 1..Len(ws.turns) :
            Strip(ws.turns[k].user_text) # <<>>
            /\ ~(k = Len(ws.turns) /\ ws.pc = "closed"
                 /\ ws.turns[k].sent[Len(ws.turns[k].sent)] = "error") =>
                IsFrame(ws.turns[k].sent, Handled(k))

(***************************************************************************)
(* PromptFactory._format_history (prompt_factory.py): a pure function of   *)
(* the history, max_turns and max_chars.                                   *)
(***************************************************************************)
\* number of items of a history
MaxItems == 3

\* "user", "User " , "assistant", "system"
RoleUser == <<117, 115, 101, 114>>
RoleUserRaw == <<85, 115, 101, 114, 32>>
RoleAssistant == <<97, 115, 115, 105, 115, 116, 97, 110, 116>>
RoleSystem == <<115, 121, 115, 116, 101, 109>>

\* "User: " and "Assistant: "
UserPrefix == <<85, 115, 101, 114, 58, 32>>
AssistantPrefix == <<65, 115, 115, 105, 115, 116, 97, 110, 116, 58, 32>>

\* str.lower() on the characters of the model
Lower(s) == [n \in 1..Len(s) |-> IF s[n] >= 65 /\ s[n] <= 90 THEN s[n] + 32 ELSE s[n]]

\* the items of the model: four roles, and the contents  ""  " "  "a"  "b "
HistoryItems ==
    [role : {RoleUser, RoleUserRaw, RoleAssistant, RoleSystem},
     content : {<<>>, <<32>>, <<97>>, <<98, 32>>}]

\* the values of max_turns and of max_chars of the model
TurnLimits == {0, 1, 2}
CharLimits == {0, 5, 25}

\* the loop "for item in history" and the statement after it: the pairs
RECURSIVE PairsLoop(_, _, _, _)
PairsLoop(history, n, pairs, current_pair) ==
    IF n > Len(history)
    THEN IF current_pair # <<>> THEN Append(pairs, current_pair) ELSE pairs
    ELSE LET role == Lower(Strip(history[n].role))
             content == Strip(history[n].content)
         IN  IF content = <<>> THEN PairsLoop(history, n + 1, pairs, current_pair)
             ELSE IF role = RoleUser
             THEN PairsLoop(history, n + 1,
                            IF current_pair # <<>> THEN Append(pairs, current_pair)
                            ELSE pairs,
                            <<UserPrefix \o content>>)
             ELSE IF role = RoleAssistant
             THEN PairsLoop(history, n + 1,
                            Append(pairs,
                                   Append(IF current_pair = <<>> THEN <<UserPrefix>>
                                          ELSE current_pair,
                                          AssistantPrefix \o content)),
                            <<>>)
             ELSE PairsLoop(history, n + 1, pairs, current_pair)

\* pairs[:max_turns]
FirstPairs(pairs, max_turns) ==
    IF max_turns > 0 /\ max_turns < Len(pairs) THEN SubSeq(pairs, 1, max_turns)
    ELSE pairs

\* "if max_turns > 0: pairs = pairs[-max_turns:]"
LastPairs(pairs, max_turns) ==
    IF max_turns > 0 /\ max_turns < Len(pairs)
    THEN SubSeq(pairs, Len(pairs) - max_turns + 1, Len(pairs))
    ELSE pairs

\* "\n".join(lines)
RECURSIVE JoinLines(_)
JoinLines(lines) ==
    IF lines = <<>> THEN <<>>
    ELSE IF Len(lines) = 1 THEN lines[1]
    ELSE lines[1] \o <<NEWLINE>> \o JoinLines(Tail(lines))

\* history_text[:max_chars]
KeepHead(history_text, max_chars) ==
    IF max_chars > 0 /\ Len(history_text) > max_chars
    THEN SubSeq(history_text, 1, max_chars)
    ELSE history_text

\* "if max_chars > 0 and len(history_text) > max_chars: history_text[-max_chars:]"
KeepTail(history_text, max_chars) ==
    IF max_chars > 0 /\ Len(history_text) > max_chars
    THEN SubSeq(history_text, Len(history_text) - max_chars + 1, Len(history_text))
    ELSE history_text

_format_history(history, max_turns, max_chars) ==
    IF history = <<>> THEN <<>>
    ELSE LET pairs == LastPairs(PairsLoop(history, 1, <<>>, <<>>), max_turns)
             lines == Concat(pairs)
         IN  KeepTail(JoinLines(lines), max_chars)

InitFmt ==
    /\ \E n \in 0..MaxItems : \E history \in [1..n -> HistoryItems] :
       \E max_turns \in TurnLimits : \E max_chars \in CharLimits :
          fmt = [pc |-> "new", history |-> history, max_turns |-> max_turns,
                 max_chars |-> max_chars, result |-> <<>>]
    /\ kind = "none" /\ allowed_set = {} /\ strip_non_english = FALSE
    /\ carry = <<>> /\ last_tag = None
    /\ has_output_text = FALSE /\ has_output_non_ws = FALSE
    /\ calls = <<>> /\ finish_count = 0
    /\ ret = [op |-> "init", chunk |-> <<>>, text |-> <<>>, tags |-> <<>>, tag |-> None,
              raised |-> FALSE]
    /\ NoChat /\ NoLLM /\ NoWs

format_history ==
    /\ fmt.pc = "new"
    /\ fmt' = [fmt EXCEPT !.result = _format_history(fmt.history, fmt.max_turns,
                                                     fmt.max_chars),
                          !.pc = "done"]
    /\ UNCHANGED <<parser_vars, chat, llm, ws>>

NextFmt == format_history

SpecFmt == InitFmt /\ [][NextFmt]_vars

(***************************************************************************)
(* C27                                                                     *)
(***************************************************************************)
\* the pairs of the whole history, told by item: the items with content, in order,
\* each "user" item opening a pair and each "assistant" item closing one
AllPairs(history) == PairsLoop(history, 1, <<>>, <<>>)

\* the block of the pairs first..Len(pairs), untruncated
BlockFrom(pairs, first) ==
    JoinLines(Concat(SubSeq(pairs, first, Len(pairs))))

IsSuffix(s, t) ==
    Len(s) <= Len(t) /\ s = SubSeq(t, Len(t) - Len(s) + 1, Len(t))

\* the history without its items of empty content
WithoutEmpty(history) == SelectSeq(history, LAMBDA item : item.content # <<>>)

\* C27: the result of _format_history is a suffix of the block of the last max_turns
\* pairs (of all the pairs when max_turns is 0), lines in their original order; it
\* is the whole block when max_chars is 0 or the block is not longer than max_chars,
\* and otherwise its last max_chars characters; items with empty content change
\* nothing.
C27_HistoryBlockBounded ==
    fmt.pc = "done" =>
        LET pairs == AllPairs(fmt.history)
            first == IF fmt.max_turns > 0 /\ Len(pairs) > fmt.max_turns
                     THEN Len(pairs) - fmt.max_turns + 1 ELSE 1
            block == BlockFrom(pairs, first)
        IN  /\ IsSuffix(fmt.result, block)
            /\ fmt.max_chars > 0 => Len(fmt.result) <= fmt.max_chars
            /\ Len(fmt.result) = IF fmt.max_chars > 0 /\ Len(block) > fmt.max_chars
                                 THEN fmt.max_chars ELSE Len(block)
            /\ fmt.result = _format_history(WithoutEmpty(fmt.history), fmt.max_turns,
                                            fmt.max_chars)

\* C27 witness: two pairs, an item of blank content between them being no part of
\* either; max_turns 1 drops the first pair and max_chars 5 keeps "er: b", the end
\* of the block "User: b".
C27_Witness ==
    /\ fmt.pc = "done"
    /\ fmt.history = <<[role |-> RoleUserRaw, content |-> <<97>>],
                       [role |-> RoleAssistant, content |-> <<32>>],
                       [role |-> RoleUser, content |-> <<98, 32>>]>>
    /\ fmt.max_turns = 1 /\ fmt.max_chars = 5
    /\ fmt.result = <<101, 114, 58, 32, 98>>
====
